---- MODULE Spec2Model ----
(***************************************************************************)
(* A model of jsdw/depends: a type-keyed registry (Context) with lazy,     *)
(* once-only initialisation of entries, parent/child Contexts and          *)
(* injection of registered values into functions by parameter type.        *)
(*                                                                         *)
(* Types are pairs [ty, d]: a base type name and a number of pointer       *)
(* indirections.  Values live in heap cells; a pointer of depth >= 1 is a  *)
(* reference to a cell.  Every goroutine calling TryInject is a thread     *)
(* with a stack of injectIntoFunction frames.                              *)
(***************************************************************************)
EXTENDS Integers, Sequences, FiniteSets, TLC

VARIABLES parent, store, entries, cells, threads, runs

vars == <<parent, store, entries, cells, threads, runs>>

----------------------------------------------------------------------------
(* Bounds of the model *)

\* number of Contexts that are ever created (the root and its descendants)
MaxCtx == 2
\* number of injectableValue objects that Register ever allocates
MaxEntries == 2
\* number of goroutines of the concurrent specification
NThreads == 2
\* the number of items registered in the specifications of dependency graphs
MaxDeps == 3

\* helpers.go:91, the number of indirections denormalizeValue tries to add
DenormLimit == 50

Types == {"A", "B", "C"}
NoCtx == 0
NoEntry == 0
NoCell == 0

----------------------------------------------------------------------------
(* Items handed to Register and functions handed to TryInject, by name.    *)
(* One record shape for all: kind "val" is a plain (possibly pointer)      *)
(* value v of type [ty, d]; kind "func" is a function with parameter types *)
(* params and numOut results, the first of type [ty, d].  A function       *)
(* returns v + the sum of its arguments, panics when panics is set, and    *)
(* writes wv through its wp-th parameter (a pointer) when wp > 0.          *)

P(ty, d) == [ty |-> ty, d |-> d]

Val(ty, d, v) ==
    [kind |-> "val", ty |-> ty, d |-> d, v |-> v, params |-> <<>>,
     numOut |-> 0, panics |-> FALSE, wp |-> 0, wv |-> 0]

Func(params, ty, d, v) ==
    [kind |-> "func", ty |-> ty, d |-> d, v |-> v, params |-> params,
     numOut |-> 1, panics |-> FALSE, wp |-> 0, wv |-> 0]

Target(params) ==
    [kind |-> "func", ty |-> "A", d |-> 0, v |-> 0, params |-> params,
     numOut |-> 0, panics |-> FALSE, wp |-> 0, wv |-> 0]

Panicking(f) == [f EXCEPT !.panics = TRUE]
Writing(f, p, w) == [f EXCEPT !.wp = p, !.wv = w]

NoItem == "none"

Item(n) ==
    CASE n = "valA" -> Val("A", 0, 1)
      \* the untyped nil: reflect.ValueOf(nil) is the zero Value
      [] n = "nil" -> [Val("", 0, 0) EXCEPT !.kind = "nil"]
      [] n = "ptrA" -> Val("A", 1, 2)
      [] n = "ptr2A" -> Val("A", 2, 4)
      \* A's producer requires B, B's producer requires A
      [] n = "makeAfromB" -> Func(<<P("B", 0)>>, "A", 0, 10)
      [] n = "makeBfromA" -> Func(<<P("A", 0)>>, "B", 0, 20)
      [] n = "makeApanics" -> Panicking(Func(<<>>, "A", 0, 0))
      [] n = "makeB" -> Func(<<>>, "B", 0, 3)
      \* func() A { select {} }
      [] n = "makeAhangs" -> Func(<<>>, "A", 0, 0)
      \* func() (B, C): two results
      [] n = "makeTwo" -> [Func(<<>>, "B", 0, 0) EXCEPT !.numOut = 2]
      \* func(p *A) B { b := B(3 + *p); *p = 7; return b }
      [] n = "makeBwritesA" -> Writing(Func(<<P("A", 1)>>, "B", 0, 3), 1, 7)
      [] n = "makeCfromA" -> Func(<<P("A", 0)>>, "C", 0, 30)
      [] n = "makePtrB" -> Func(<<>>, "B", 1, 5)
      [] n = "makePtr2B" -> Func(<<>>, "B", 2, 6)
      [] n = "wantA" -> Target(<<P("A", 0)>>)
      [] n = "wantB" -> Target(<<P("B", 0)>>)
      \* func(p *A) { *p = 7 }
      [] n = "setA" -> Writing(Target(<<P("A", 1)>>), 1, 7)
      [] n = "wantForms" ->
           Writing(Target(<<P("A", 0), P("A", 1), P("A", 2)>>), 3, 7)
      \* the deepest pointer form denormalizeValue builds, and the next one
      [] n = "wantDeepA" ->
           Target(<<P("A", DenormLimit + 1), P("A", DenormLimit + 2)>>)
      [] n = "wantFormsB" -> Target(<<P("B", 0), P("B", 1), P("B", 2)>>)
      \* a value of a type with an OnInjection method, and that method:
      \* func (c *C) OnInjection(b B) { *c = C(b) }
      [] n = "hookedC" -> Val("C", 0, 0)
      [] n = "setCfromB" -> Func(<<P("B", 0)>>, "C", 0, 0)
      [] n = "wantC" -> Target(<<P("C", 0)>>)
      [] n = "noParams" -> Target(<<>>)
      [] n = "noParamsPanics" -> Panicking(Target(<<>>))
      [] n = "wantAB" -> Target(<<P("A", 0), P("B", 0)>>)
      [] n = "wantBC" -> Target(<<P("B", 0), P("C", 0)>>)
      [] n = "panicsA" -> Panicking(Target(<<P("A", 0)>>))

\* the functions that never return
Hangs(n) == n = "makeAhangs"

\* the OnInjection method the type of a registered value defines
HookOf(n) == IF n = "hookedC" THEN "setCfromB" ELSE NoItem

----------------------------------------------------------------------------
(* Errors (errors.go) *)

NoChain == <<>>
ErrNil == [kind |-> "nil", ty |-> "", pos |-> 0, chain |-> NoChain, cause |-> NoItem]
ErrorFunctionNotProvided ==
    [kind |-> "FunctionNotProvided", ty |-> "", pos |-> 0, chain |-> NoChain, cause |-> NoItem]
ErrorTypeNotRegistered(ty, pos) ==
    [kind |-> "TypeNotRegistered", ty |-> ty, pos |-> pos, chain |-> NoChain, cause |-> NoItem]
ErrorCircularInject(chain) ==
    [kind |-> "CircularInject", ty |-> "", pos |-> 0, chain |-> chain, cause |-> NoItem]
ErrorPanicInFunction(f) ==
    [kind |-> "PanicInFunction", ty |-> "", pos |-> 0, chain |-> NoChain, cause |-> f]
ErrorDenormalize ==
    [kind |-> "denormalize", ty |-> "", pos |-> 0, chain |-> NoChain, cause |-> NoItem]

----------------------------------------------------------------------------
(* helpers.go *)

\* one level of indirection is removed and what is left is a key of its own
normalizeKey_Shallow(t) == IF t.d > 1 THEN "C" ELSE t.ty

\* strip every level of indirection: the key is the base type
RECURSIVE normalizeKey(_)
normalizeKey(t) ==
    IF t.d > 0 THEN normalizeKey([t EXCEPT !.d = t.d - 1]) ELSE t.ty

\* every type is taken to be in the chain
typeExistsInSlice_Any(s, ty) == TRUE

typeExistsInSlice(s, ty) == \E k \in 1..Len(s) : s[k] = ty

appendType(s, ty) == Append(s, ty)

\* the depth of the stored reflect.Value: the base value behind one pointer,
\* in a cell of its own (reflect.New, then Set: a copy)
RECURSIVE derefAll(_)
derefAll(d) == IF d > 0 THEN derefAll(d - 1) ELSE d

normalizeValue(d) == derefAll(d) + 1

\* the deref loop of denormalizeValue: depth at which targetDepth is met, or -1
RECURSIVE derefLoop(_, _)
derefLoop(d, target) ==
    IF d > 0
    THEN IF d - 1 = target THEN d - 1 ELSE derefLoop(d - 1, target)
    ELSE -1

\* the loop adding indirections, at most DenormLimit of them
RECURSIVE wrapLoop(_, _, _)
wrapLoop(i, d, target) ==
    IF i < DenormLimit
    THEN IF d + 1 = target THEN d + 1 ELSE wrapLoop(i + 1, d + 1, target)
    ELSE -1

\* how a stored value of depth valDepth is reshaped to targetDepth:
\* pointers are added until the requested depth is met, without a limit
denormalizeValue_Unbounded(valDepth, targetDepth) ==
    IF valDepth = targetDepth THEN "same"
    ELSE IF valDepth > targetDepth THEN "deref"
    ELSE "wrap"

\* "same" is the stored pointer, "deref" a dereference of it (item.Elem(),
\* the pointed-to value itself), "wrap" new pointers to the stored pointer,
\* "error" the denormalization error
denormalizeValue(valDepth, targetDepth) ==
    IF valDepth = targetDepth THEN "same"
    ELSE IF derefLoop(valDepth, targetDepth) # -1 THEN "deref"
    ELSE IF wrapLoop(0, valDepth, targetDepth) # -1 THEN "wrap"
    ELSE "error"

----------------------------------------------------------------------------
(* State *)

\* the goroutines of a behaviour
Threads == DOMAIN threads

\* a frame of injectIntoFunction: the Context it runs on, the function, the
\* chain of types being initialised, the 1-based index of the parameter
\* being resolved, the arguments resolved so far; within getInjectable, the
\* Context whose store is read next (lk), the entry found (ent) and where
\* the frame stands: "loop" at the head of the parameter loop, "once" at
\* arg.init.Do, "ret" returning the error err
Frame(c, fn, from) ==
    [ctx |-> c, fn |-> fn, from |-> from, i |-> 1, args |-> <<>>,
     lk |-> c, ent |-> NoEntry, pc |-> "loop", err |-> ErrNil]

IdleThread ==
    [status |-> "idle", ctx |-> NoCtx, fn |-> NoItem, stack |-> <<>>,
     result |-> ErrNil, called |-> FALSE, faulted |-> NoItem, nres |-> 0,
     strict |-> FALSE, items |-> <<>>]

EmptyStore == [k \in Types |-> NoEntry]

\* New(): one root Context, nothing registered
New ==
    /\ parent = <<NoCtx>>
    /\ store = <<EmptyStore>>
    /\ entries = <<>>
    /\ cells = <<>>
    /\ runs = <<>>

\* one goroutine, no call in progress
Init ==
    /\ New
    /\ threads = [t \in {1} |-> IdleThread]

\* NThreads goroutines, no call in progress
InitConc ==
    /\ New
    /\ threads = [t \in 1..NThreads |-> IdleThread]

Ctxs == 1..Len(parent)

Top(t) == threads[t].stack[Len(threads[t].stack)]

\* the caller has taken the outcome of its call and goes on
Forget(t) ==
    /\ threads[t].status \in {"done", "panicked", "crashed"}
    /\ threads' = [threads EXCEPT ![t] = IdleThread]
    /\ UNCHANGED <<parent, store, entries, cells, runs>>

SetTop(t, f) ==
    [threads EXCEPT ![t].stack = [@ EXCEPT ![Len(@)] = f]]

Pop(stack) == SubSeq(stack, 1, Len(stack) - 1)

NumIn(fn) == Len(Item(fn).params)

----------------------------------------------------------------------------
(* depends.go: Child, Register *)

Child(c) ==
    /\ c \in Ctxs
    /\ Len(parent) < MaxCtx
    /\ parent' = Append(parent, c)
    /\ store' = Append(store, EmptyStore)
    /\ UNCHANGED <<entries, cells, threads, runs>>

\* the key an item is stored under: its type, or the type it returns
registerKey(item) == normalizeKey(P(item.ty, item.d))

\* the injectableValue registerOne builds for an item, and the cell it
\* allocates for a value (normalizeValue copies the value into a new cell);
\* reg and ty record what was registered and under which key, ctx is the
\* Context the itemMaker closure captures
newEntryAt(c, n, cell) ==
    LET item == Item(n) IN
    IF item.kind = "func"
    THEN [reg |-> n, maker |-> n, ty |-> registerKey(item), ctx |-> c,
          item |-> NoCell, d |-> 0, once |-> "fresh"]
    ELSE [reg |-> n, maker |-> NoItem, ty |-> registerKey(item), ctx |-> c,
          item |-> cell, d |-> normalizeValue(item.d), once |-> "fresh"]

newEntry(c, n) == newEntryAt(c, n, Len(cells) + 1)

\* syncMap.put: the key's slot now holds the new entry, whatever it held
\* a store that keeps the entry it already has (LoadOrStore)
put_KeepFirst(st, key, e) ==
    IF st[key] # NoEntry THEN st ELSE [st EXCEPT ![key] = e]
put(st, key, e) == [st EXCEPT ![key] = e]

\* a child sharing the map of its parent: every store is written
putIn_Shared(c, key, e) == [x \in DOMAIN store |-> put(store[x], key, e)]

\* ctx.injectables.put: the store of Context c alone is written
putIn(c, key, e) == [store EXCEPT ![c] = put(@, key, e)]

\* everything is taken as an item
Accepts_Any(n) == TRUE

\* registerOne, lines 74-85, goes on to store the item unless it panics:
\* val.Type(), line 75, panics on the zero Value that reflect.ValueOf
\* makes of nil, and a function is registered only if it returns exactly
\* one value (lines 78-85)
Accepts(n) ==
    /\ Item(n).kind # "nil"
    /\ Item(n).kind = "func" => Item(n).numOut = 1

\* registerOne of an item it does not panic on, while fewer than max items
\* have been registered
registerUpTo(c, n, max) ==
    /\ c \in Ctxs
    /\ Len(entries) < max
    /\ Accepts(n)
    /\ entries' = Append(entries, newEntry(c, n))
    /\ runs' = Append(runs, 0)
    /\ cells' = IF Item(n).kind = "func" THEN cells ELSE Append(cells, Item(n).v)
    /\ store' = putIn(c, registerKey(Item(n)), Len(entries) + 1)
    /\ UNCHANGED <<parent, threads>>

registerOne(c, n) == registerUpTo(c, n, MaxEntries)

\* the registry after registerOne(item) on Context c, as a function of
\* the registry S before it
registered(S, c, n) ==
    [entries |-> Append(S.entries, newEntryAt(c, n, Len(S.cells) + 1)),
     runs |-> Append(S.runs, 0),
     cells |-> IF Item(n).kind = "func" THEN S.cells
               ELSE Append(S.cells, Item(n).v),
     store |-> [S.store EXCEPT
                  ![c] = put(@, registerKey(Item(n)), Len(S.entries) + 1)]]

\* the items that the Register calls in progress have still to register
RECURSIVE Pending(_)
Pending(T) ==
    IF T = {} THEN 0
    ELSE LET t == CHOOSE x \in T : TRUE
         IN (IF threads[t].status = "reg"
             THEN Len(threads[t].items) - threads[t].nres ELSE 0)
            + Pending(T \ {t})

\* Register(items...) is called on Context c by goroutine t, lines 67-68;
\* nres counts the items the loop has registered
Register(t, c, items) ==
    /\ c \in Ctxs
    /\ threads[t].status = "idle"
    /\ items # <<>>
    /\ Len(entries) + Pending(Threads) + Len(items) <= MaxDeps
    /\ threads' = [threads EXCEPT ![t] =
                     [IdleThread EXCEPT !.status = "reg", !.ctx = c,
                                        !.items = items]]
    /\ UNCHANGED <<parent, store, entries, cells, runs>>

\* one iteration of the loop of Register, lines 68-70: registerOne of the
\* next item, which panics (lines 78-85) or stores one entry (one
\* sync.Map.Store, map.go:38-40); nothing is held from one item to the
\* next, and Register returns after the last one. When registerOne panics
\* the goroutine is left panicking on the item (fn) after nres items
registerItem(t) ==
    /\ threads[t].status = "reg"
    /\ LET c == threads[t].ctx
           k == threads[t].nres + 1
           n == threads[t].items[k]
           S == registered([entries |-> entries, runs |-> runs,
                            cells |-> cells, store |-> store], c, n)
       IN IF ~Accepts(n)
          THEN /\ threads' = [threads EXCEPT ![t].status = "panicked",
                                             ![t].fn = n]
               /\ UNCHANGED <<entries, runs, cells, store>>
          ELSE /\ entries' = S.entries
               /\ runs' = S.runs
               /\ cells' = S.cells
               /\ store' = S.store
               /\ threads' = [threads EXCEPT ![t] =
                                IF k = Len(threads[t].items) THEN IdleThread
                                ELSE [@ EXCEPT !.nres = k]]
    /\ UNCHANGED parent

----------------------------------------------------------------------------
(* depends.go: TryInject, injectIntoFunction, getInjectable *)

\* how a call ends for its caller: TryInject returns err; Inject, lines
\* 112-116, returns when err is nil and panics with err.Error() otherwise
Returned(strict, err) ==
    IF strict /\ err # ErrNil THEN "panicked" ELSE "done"

\* a function is refused unless it has a parameter
Enter_RefuseEmpty(t, c, fn, strict) ==
    /\ c \in Ctxs
    /\ threads[t].status = "idle"
    /\ threads' = [threads EXCEPT ![t] =
         IF Item(fn).kind = "nil"
         THEN [IdleThread EXCEPT !.status = "crashed", !.ctx = c, !.fn = fn,
                                 !.strict = strict]
         ELSE IF Item(fn).kind # "func" \/ Item(fn).params = <<>>
         THEN [IdleThread EXCEPT !.status = Returned(strict, ErrorFunctionNotProvided),
                                 !.ctx = c, !.fn = fn, !.strict = strict,
                                 !.result = ErrorFunctionNotProvided]
         ELSE [IdleThread EXCEPT !.status = "run", !.ctx = c, !.fn = fn,
                                 !.strict = strict,
                                 !.stack = <<Frame(c, fn, <<>>)>>]]
    /\ UNCHANGED <<parent, store, entries, cells, runs>>

\* injectIntoFunction, lines 128-132, entered from TryInject or from Inject:
\* fnVal.Type(), line 129, panics on the zero Value that reflect.ValueOf
\* makes of nil, and nothing recovers it: the call does not return; any
\* other thing that is not a function is refused before anything is
\* resolved
Enter(t, c, fn, strict) ==
    /\ c \in Ctxs
    /\ threads[t].status = "idle"
    /\ threads' = [threads EXCEPT ![t] =
         IF Item(fn).kind = "nil"
         THEN [IdleThread EXCEPT !.status = "crashed", !.ctx = c, !.fn = fn,
                                 !.strict = strict]
         ELSE IF Item(fn).kind # "func"
         THEN [IdleThread EXCEPT !.status = Returned(strict, ErrorFunctionNotProvided),
                                 !.ctx = c, !.fn = fn, !.strict = strict,
                                 !.result = ErrorFunctionNotProvided]
         ELSE [IdleThread EXCEPT !.status = "run", !.ctx = c, !.fn = fn,
                                 !.strict = strict,
                                 !.stack = <<Frame(c, fn, <<>>)>>]]
    /\ UNCHANGED <<parent, store, entries, cells, runs>>

TryInject(t, c, fn) == Enter(t, c, fn, FALSE)

Inject(t, c, fn) == Enter(t, c, fn, TRUE)

\* the position set by the innermost injectIntoFunction is kept
annotate_KeepInner(err, i) ==
    IF err.kind = "TypeNotRegistered" /\ err.pos = 0
    THEN [err EXCEPT !.pos = i] ELSE err

\* the position is the 0-based loop index
annotate_ZeroBased(err, i) ==
    IF err.kind = "TypeNotRegistered" THEN [err EXCEPT !.pos = i - 1] ELSE err

\* injectIntoFunction, lines 147-157: only a TypeNotRegistered error is
\* given the position of the parameter being resolved
annotate(err, i) ==
    IF err.kind = "TypeNotRegistered" THEN [err EXCEPT !.pos = i] ELSE err

\* a miss is never delegated
delegate_None(c) == NoCtx

\* getInjectable, lines 179-182: the Context a miss on c is delegated to
delegate(c) == parent[c]

\* the error is recorded but the loop goes on with the zero Value
onError_Continue(f, err) ==
    [f EXCEPT !.err = annotate(err, f.i),
              !.args = Append(f.args, [ty |-> "", d |-> 0, ent |-> NoEntry,
                                       cell |-> NoCell, val |-> 0]),
              !.i = f.i + 1, !.lk = f.ctx, !.ent = NoEntry, !.pc = "loop"]

\* injectIntoFunction, lines 147-157: an error of getInjectable ends the
\* parameter loop and is returned
onError(f, err) == [f EXCEPT !.pc = "ret", !.err = annotate(err, f.i)]

\* getInjectable, lines 174-184: one read of the store of Context lk
getInjectable(t) ==
    /\ threads[t].status = "run"
    /\ LET f == Top(t)
       IN /\ f.pc = "loop"
          /\ f.i <= NumIn(f.fn)
          /\ LET key == normalizeKey(Item(f.fn).params[f.i])
                 e == store[f.lk][key]
             IN threads' = SetTop(t,
                  IF e # NoEntry THEN [f EXCEPT !.ent = e, !.pc = "once"]
                  ELSE IF delegate(f.lk) # NoCtx THEN [f EXCEPT !.lk = delegate(f.lk)]
                  ELSE onError(f, ErrorTypeNotRegistered(key, 0)))
    /\ UNCHANGED <<parent, store, entries, cells, runs>>

\* every form is handed over as a copy of the stored value
Delivered_Copy(e, ty, how) ==
    [ty |-> ty.ty, d |-> ty.d, ent |-> e, cell |-> NoCell,
     val |-> cells[entries[e].item]]

\* the argument handed over for a stored item reshaped to depth d: in
\* every form a reflect.Value on the cell of the entry, item.Elem() for a
\* plain value (helpers.go:76-83), the stored or a new pointer to the cell
\* otherwise; nothing is copied before the function is called (val is the
\* value of an argument that has no cell)
Delivered(e, ty, how) ==
    [ty |-> ty.ty, d |-> ty.d, ent |-> e, cell |-> entries[e].item, val |-> 0]

\* the entries whose once.Do is on thread t's call stack
InitBy(t) ==
    {threads[t].stack[k].ent : k \in 1..(Len(threads[t].stack) - 1)}

\* a panic that nothing recovers: every once.Do on the stack is left done
\* (sync.Once marks itself done in a defer) and TryInject does not return
Crash(t) ==
    /\ threads' = [threads EXCEPT ![t].status = "crashed", ![t].stack = <<>>]
    /\ entries' = [e \in 1..Len(entries) |->
                     IF e \in InitBy(t) THEN [entries[e] EXCEPT !.once = "done"]
                     ELSE entries[e]]

\* getInjectable, line 212: denormalizeValue(arg.item, ty); the item of an
\* entry whose initialisation failed is the zero reflect.Value, and
\* val.Type() panics on it
Deliver(t, ents) ==
    LET f == Top(t)
        ty == Item(f.fn).params[f.i]
        E == ents[f.ent]
        how == denormalizeValue(E.d, ty.d)
    IN IF E.item = NoCell
       THEN Crash(t)
       ELSE /\ entries' = ents
            /\ threads' = SetTop(t,
                 IF how = "error"
                 THEN onError(f, ErrorDenormalize)
                 ELSE [f EXCEPT !.args = Append(f.args, Delivered(f.ent, ty, how)),
                                !.i = f.i + 1, !.lk = f.ctx,
                                !.ent = NoEntry, !.pc = "loop"])

\* sync.Once: Do returns at once when done, runs the function when fresh,
\* and waits while another Do (of any goroutine, this one included) runs it
\* one Once for all the entries: a Do waits while any of them is running
onceBlocks_Global(E) == \E e \in 1..Len(entries) : entries[e].once = "running"

\* a Do that never gets past the Once
onceBlocks_Always(E) == TRUE

\* a Do that does not wait for a running one
onceBlocks_NoWait(E) == FALSE
onceBlocks(E) == E.once = "running"

\* the producer resolves on the Context of the call that needs its type
itemMakerCtx_Caller(E, c) == c

\* registerOne, lines 89-90: the itemMaker is a closure over the ctx that
\* Register was called on, whichever Context c the request came from
itemMakerCtx(E, c) == E.ctx

\* getInjectable, lines 188-212: arg.init.Do(...) and what follows it
OnceDo(t) ==
    /\ threads[t].status = "run"
    /\ LET f == Top(t)
       IN /\ f.pc = "once"
          /\ LET E == entries[f.ent]
                 key == normalizeKey(Item(f.fn).params[f.i])
             IN /\ ~onceBlocks(E)
                /\ IF E.once = "done"
                   THEN Deliver(t, entries)
                   ELSE IF E.maker = NoItem
                   THEN Deliver(t, [entries EXCEPT ![f.ent].once = "done"])
                   ELSE IF typeExistsInSlice(f.from, key)
                   THEN /\ entries' = [entries EXCEPT ![f.ent].once = "done"]
                        /\ threads' = SetTop(t,
                              onError(f, ErrorCircularInject(appendType(f.from, key))))
                   ELSE /\ entries' = [entries EXCEPT ![f.ent].once = "running"]
                        /\ threads' = [threads EXCEPT ![t].stack =
                              Append(@, Frame(itemMakerCtx(E, f.ctx), E.maker, f.from))]
    /\ UNCHANGED <<parent, store, cells, runs>>

\* the function is handed zero values
ArgVal_Zero(a) == 0

\* the value a function called now gets from an argument: fnVal.Call,
\* line 169, copies a plain value out of the cell, and a pointer is read
\* through
ArgVal(a) == IF a.cell # NoCell THEN cells[a.cell] ELSE a.val

RECURSIVE SumArgs(_)
SumArgs(args) ==
    IF args = <<>> THEN 0 ELSE ArgVal(Head(args)) + SumArgs(Tail(args))

\* the write reaches every stored value, those made from the written one
\* included
Written_Through(n, args) ==
    LET fn == Item(n) IN
    IF fn.wp > 0 /\ fn.wp <= Len(args) /\ args[fn.wp].d > 0
    THEN [c \in DOMAIN cells |-> fn.wv]
    ELSE cells

\* the write goes to a copy and is lost
Written_Lost(n, args) == cells

\* the heap after the function has run: its write through a pointer argument
Written(n, args) ==
    LET fn == Item(n) IN
    IF fn.wp > 0 /\ fn.wp <= Len(args) /\ args[fn.wp].d > 0
    THEN [cells EXCEPT ![args[fn.wp].cell] = fn.wv]
    ELSE cells

\* a recover that does not set the error
recovered_Nil(fn) == ErrNil

\* injectIntoFunction, lines 163-167: the deferred function recovers the
\* panic of the function called and returns it as the error
recovered(fn) == ErrorPanicInFunction(fn)

\* injectIntoFunction, lines 162-170: fnVal.Call(args) under recover; for a
\* producer the itemMaker (registerOne, lines 89-95) normalizes the result
\* and getInjectable, lines 203-205, stores it in the entry
Call(t) ==
    /\ threads[t].status = "run"
    /\ LET f == Top(t)
           n == Len(threads[t].stack)
           nested == n > 1
           e == IF nested THEN threads[t].stack[n - 1].ent ELSE NoEntry
       IN /\ f.pc = "loop"
          /\ f.i > NumIn(f.fn)
          /\ ~Hangs(f.fn)
          /\ runs' = IF nested THEN [runs EXCEPT ![e] = @ + 1] ELSE runs
          /\ IF Item(f.fn).panics
             THEN /\ threads' = [SetTop(t, [f EXCEPT !.pc = "ret",
                                     !.err = recovered(f.fn)])
                                  EXCEPT ![t].faulted = f.fn,
                                         ![t].called = IF nested THEN @ ELSE TRUE]
                  /\ UNCHANGED <<entries, cells>>
             ELSE IF nested
             THEN /\ cells' = Append(Written(f.fn, f.args), Item(f.fn).v + SumArgs(f.args))
                  /\ entries' = [entries EXCEPT ![e].item = Len(cells) + 1,
                                                ![e].d = normalizeValue(Item(f.fn).d),
                                                ![e].once = "done"]
                  /\ threads' = [threads EXCEPT ![t].stack = Pop(@)]
             ELSE /\ cells' = Written(f.fn, f.args)
                  /\ threads' = [threads EXCEPT
                                   ![t].status = Returned(threads[t].strict, f.err),
                                   ![t].stack = <<>>, ![t].called = TRUE,
                                   ![t].nres = Len(f.args),
                                   ![t].result = f.err]
                  /\ UNCHANGED entries
    /\ UNCHANGED <<parent, store>>

\* an error leaves injectIntoFunction: TryInject returns it, or the
\* itemMaker returns it, getInjectable keeps the zero item, once.Do ends
\* and the caller's injectIntoFunction returns it in turn
ReturnErr(t) ==
    /\ threads[t].status = "run"
    /\ LET f == Top(t)
           n == Len(threads[t].stack)
       IN /\ f.pc = "ret"
          /\ IF n = 1
             THEN /\ threads' = [threads EXCEPT
                                   ![t].status = Returned(threads[t].strict, f.err),
                                   ![t].stack = <<>>, ![t].nres = Len(f.args),
                                   ![t].result = f.err]
                  /\ UNCHANGED entries
             ELSE LET p == threads[t].stack[n - 1]
                  IN /\ entries' = [entries EXCEPT ![p.ent].once = "done"]
                     /\ threads' = [threads EXCEPT ![t].stack =
                          Append(SubSeq(@, 1, n - 2),
                                 onError(p, f.err))]
    /\ UNCHANGED <<parent, store, cells, runs>>

----------------------------------------------------------------------------
(* The items and functions of the sequential specification *)

SeqItems == {"valA", "ptrA", "makeBfromA", "makeApanics"}

SeqFns == {"wantForms", "wantDeepA", "wantBC", "panicsA"}

----------------------------------------------------------------------------
(* Sequential use: one goroutine, one call at a time *)

Quiet == \A t \in Threads : threads[t].status = "idle"

Next ==
    \/ \E c \in 1..MaxCtx, item \in SeqItems : Quiet /\ registerOne(c, item)
    \/ \E c \in 1..MaxCtx : Quiet /\ Child(c)
    \/ \E c \in 1..MaxCtx, fn \in SeqFns : TryInject(1, c, fn)
    \/ getInjectable(1)
    \/ OnceDo(1)
    \/ Call(1)
    \/ ReturnErr(1)
    \/ Forget(1)

Spec == Init /\ [][Next]_vars

----------------------------------------------------------------------------
(* Concurrent use: NThreads goroutines call TryInject on the root Context  *)
(* at the same time; items are registered between the calls                *)

ConcItems == {"makeAfromB", "makeBfromA", "makeB", "makeApanics"}

ConcFns == {"wantA", "setA", "wantB"}

NextConc ==
    \/ \E item \in ConcItems : Quiet /\ registerOne(1, item)
    \/ \E t \in Threads, fn \in ConcFns : TryInject(t, 1, fn)
    \/ \E t \in Threads : getInjectable(t)
    \/ \E t \in Threads : OnceDo(t)
    \/ \E t \in Threads : Call(t)
    \/ \E t \in Threads : ReturnErr(t)
    \/ \E t \in Threads : Forget(t)

SpecConc == InitConc /\ [][NextConc]_vars

----------------------------------------------------------------------------
(* Vocabulary of the properties *)

FramesOf(t) == {threads[t].stack[k] : k \in 1..Len(threads[t].stack)}

\* the arguments handed over so far, in any frame of thread t
ArgsOf(t) == UNION {{f.args[j] : j \in 1..Len(f.args)} : f \in FramesOf(t)}

ProducerBacked(e) == entries[e].maker # NoItem

\* thread t waits in once.Do on entry e
WaitsOn(t, e) ==
    /\ threads[t].status = "run"
    /\ Top(t).pc = "once"
    /\ Top(t).ent = e
    /\ entries[e].once = "running"

\* thread t waits on a once.Do that its own call stack is running
StuckOnItself(t) == \E e \in InitBy(t) : WaitsOn(t, e)

----------------------------------------------------------------------------
(* C1: in every reachable state, the producer of a registered entry has    *)
(* been executed at most once, and every argument handed over from a       *)
(* producer-backed entry comes from exactly one execution of its producer, *)
(* however many goroutines requested the type.                             *)
C1_ProducerRunsOnce ==
    /\ \A e \in 1..Len(entries) : runs[e] <= 1
    /\ \A t \in Threads : \A a \in ArgsOf(t) :
         ProducerBacked(a.ent) => runs[a.ent] = 1

\* one goroutine runs the initialisation of a producer-backed entry while
\* all the others wait in once.Do for the same, not yet initialised, entry
C1_Witness ==
    \E e \in 1..Len(entries) : \E t \in Threads :
       /\ ProducerBacked(e)
       /\ e \in InitBy(t)
       /\ runs[e] = 0
       /\ \A u \in Threads \ {t} : WaitsOn(u, e)

----------------------------------------------------------------------------
(* C2: when A's producer requires B and B's producer requires A, a         *)
(* TryInject of a function requesting A never hangs and returns            *)
(* CircularInject with the chain A, B, A.                                  *)
CyclicPair ==
    /\ store[1]["A"] # NoEntry
    /\ store[1]["B"] # NoEntry
    /\ entries[store[1]["A"]].maker = "makeAfromB"
    /\ entries[store[1]["B"]].maker = "makeBfromA"

\* C2: with the cyclic pair registered, a TryInject requesting A does not
\* wait on itself, does not crash, and returns CircularInject [A, B, A]
C2_CycleReported ==
    \A t \in Threads :
       (CyclicPair /\ threads[t].fn = "wantA" /\ threads[t].ctx = 1) =>
          /\ ~StuckOnItself(t)
          /\ threads[t].status # "crashed"
          /\ threads[t].status = "done" =>
               threads[t].result = ErrorCircularInject(<<"A", "B", "A">>)

----------------------------------------------------------------------------
(* C10: a goroutine is handed a value of a producer-backed entry only once *)
(* the one execution of the producer has completed, and every goroutine    *)
(* holds the value that this execution realized: a view of the one cell    *)
(* in which the result was stored.                                         *)
C10_SameRealizedValue ==
    \A t \in Threads : \A a \in ArgsOf(t) :
       ProducerBacked(a.ent) =>
          /\ entries[a.ent].once = "done"
          /\ entries[a.ent].item # NoCell
          /\ runs[a.ent] = 1
          /\ a.cell = entries[a.ent].item

\* every goroutine holds the value realized by the one execution of the
\* producer of the same entry
C10_Witness ==
    \E e \in 1..Len(entries) :
       /\ ProducerBacked(e)
       /\ runs[e] = 1
       /\ \A t \in Threads : \E a \in ArgsOf(t) : a.ent = e

----------------------------------------------------------------------------
(* Vocabulary of the properties about Contexts *)

\* the entry a lookup of key k from Context c should end at: the one of the
\* nearest Context, c itself first, that has an entry for k
RECURSIVE NearestEntry(_, _)
NearestEntry(c, k) ==
    IF store[c][k] # NoEntry THEN store[c][k]
    ELSE IF parent[c] # NoCtx THEN NearestEntry(parent[c], k)
    ELSE NoEntry

RECURSIVE IsAncestorOrSelf(_, _)
IsAncestorOrSelf(a, c) ==
    \/ a = c
    \/ parent[c] # NoCtx /\ IsAncestorOrSelf(a, parent[c])

ParamKey(n, j) == normalizeKey(Item(n).params[j])

\* the first parameter of function n whose type has no entry in Context c
\* nor in an ancestor of c; 0 when there is none
FirstMissing(c, n) ==
    LET M == {j \in 1..NumIn(n) : NearestEntry(c, ParamKey(n, j)) = NoEntry}
    IN IF M = {} THEN 0 ELSE CHOOSE j \in M : \A i \in M : j <= i

Done(t) == threads[t].status = "done"

\* the value the functions write through pointers
WrittenValues == {Item("wantForms").wv}

----------------------------------------------------------------------------
(* C3, as amended: every argument of a function is handed over from the   *)
(* entry of the nearest Context, the function's own Context first, that    *)
(* has an entry for the type when the call is made, and with that entry's  *)
(* value; a lookup fails with TypeNotRegistered only when the Context it   *)
(* is made on (the Context of the call for the function's parameters, the  *)
(* Context a producer was registered on for the producer's parameters) and *)
(* all its ancestors have no entry for the type.                           *)
C3_NearestEntryDelivered ==
    \A t \in Threads : \A f \in FramesOf(t) :
       /\ \A j \in 1..Len(f.args) :
            /\ f.args[j].ent # NoEntry
            /\ f.args[j].ent = NearestEntry(f.ctx, ParamKey(f.fn, j))
            /\ f.args[j].cell = entries[f.args[j].ent].item
       /\ f.pc = "once" => f.ent = NearestEntry(f.ctx, ParamKey(f.fn, f.i))
       /\ (f.pc = "ret" /\ f.err.kind = "TypeNotRegistered" /\ f.ent = NoEntry) =>
            /\ f.err.ty = ParamKey(f.fn, f.i)
            /\ NearestEntry(f.ctx, f.err.ty) = NoEntry

\* C3 as stated: moreover, a TryInject returns TypeNotRegistered only for a
\* type that has no entry in the Context of the call nor in its ancestors
C3_Original ==
    /\ C3_NearestEntryDelivered
    /\ \A t \in Threads :
         (Done(t) /\ threads[t].result.kind = "TypeNotRegistered") =>
            NearestEntry(threads[t].ctx, threads[t].result.ty) = NoEntry

\* a call on the child holds a value of an entry of its parent, registered
\* after the child was created and had an entry of its own
C3_Witness ==
    \E t \in Threads : \E f \in FramesOf(t) : \E j \in 1..Len(f.args) :
       /\ f.ctx = 2
       /\ parent[2] = 1
       /\ entries[f.args[j].ent].ctx = 1
       /\ \E e \in 1..Len(entries) : e < f.args[j].ent /\ entries[e].ctx = 2

----------------------------------------------------------------------------
(* C4: a Register on a Context writes the store of that Context alone: the *)
(* stores of all other Contexts, all existing entries and all existing     *)
(* cells are unchanged; a function never receives a value of an entry of a *)
(* Context that is neither its own nor an ancestor, and a call succeeds    *)
(* only if every requested type has an entry in the Context or an          *)
(* ancestor (a type registered only in a child is not found from the       *)
(* parent).                                                                *)
C4_SeesOnlyAncestors ==
    \A t \in Threads :
       /\ \A f \in FramesOf(t) : \A j \in 1..Len(f.args) :
            IsAncestorOrSelf(entries[f.args[j].ent].ctx, f.ctx)
       /\ (Done(t) /\ threads[t].result = ErrNil) =>
            FirstMissing(threads[t].ctx, threads[t].fn) = 0

C4_RegisterFrame ==
    Len(entries') > Len(entries) =>
       LET c == entries'[Len(entries')].ctx
       IN /\ \A s \in 1..Len(store) : s # c => store'[s] = store[s]
          /\ SubSeq(entries', 1, Len(entries)) = entries
          /\ SubSeq(cells', 1, Len(cells)) = cells
          /\ parent' = parent

\* C4: always, values are handed over from the Context or an ancestor only,
\* and every Register step leaves all other stores, entries and cells as
\* they were
C4_ChildRegisterInvisible ==
    [](C4_SeesOnlyAncestors) /\ [][C4_RegisterFrame]_vars

\* a call on the parent has returned TypeNotRegistered for a type that its
\* child has an entry for
C4_Witness ==
    \E t \in Threads :
       /\ Done(t)
       /\ threads[t].ctx = 1
       /\ threads[t].result.kind = "TypeNotRegistered"
       /\ Len(parent) >= 2 /\ parent[2] = 1
       /\ store[2][threads[t].result.ty] # NoEntry
       /\ store[1][threads[t].result.ty] = NoEntry

----------------------------------------------------------------------------
(* C5, as amended: when the k-th parameter is the first whose type has no  *)
(* entry in the Context or an ancestor and all parameters before it have   *)
(* been resolved, TryInject returns TypeNotRegistered with that type and   *)
(* Pos = k.                                                                *)
C5_FirstMissingReported ==
    \A t \in Threads :
       LET k == FirstMissing(threads[t].ctx, threads[t].fn)
       IN (Done(t) /\ k # 0 /\ threads[t].nres = k - 1) =>
             threads[t].result =
                ErrorTypeNotRegistered(ParamKey(threads[t].fn, k), k)

\* C5 as stated: whatever happens to the parameters before the k-th
C5_Original ==
    \A t \in Threads :
       LET k == FirstMissing(threads[t].ctx, threads[t].fn)
       IN (Done(t) /\ k # 0) =>
             threads[t].result =
                ErrorTypeNotRegistered(ParamKey(threads[t].fn, k), k)

\* B was resolved and C, the 2nd parameter, is registered nowhere
C5_Witness ==
    \E t \in Threads :
       /\ Done(t)
       /\ threads[t].fn = "wantBC"
       /\ threads[t].nres = 1
       /\ threads[t].result = ErrorTypeNotRegistered("C", 2)

----------------------------------------------------------------------------
(* C6, as amended: every argument handed over for a type, in whatever     *)
(* pointer form, is the data of the type's entry: a pointer form refers to *)
(* the entry's cell and a plain value is read from that cell when the      *)
(* function is called, so that a write made through a pointer form is what *)
(* later resolutions deliver; a form is refused, with the                  *)
(* denormalization error, only when it has more than DenormLimit + 1       *)
(* levels of indirection.                                                  *)
C6_SameUnderlyingData ==
    /\ \A t \in Threads : \A a \in ArgsOf(t) :
         /\ entries[a.ent].item # NoCell
         /\ a.cell = entries[a.ent].item
    /\ \A t \in Threads : \A f \in FramesOf(t) :
         (f.pc = "ret" /\ f.err = ErrorDenormalize) =>
            Item(f.fn).params[f.i].d > DenormLimit + 1

\* C6 as stated: moreover, no pointer form of a registered type is refused
C6_Original ==
    /\ C6_SameUnderlyingData
    /\ \A t \in Threads : \A f \in FramesOf(t) : f.err # ErrorDenormalize

\* one call holds T, *T and **T of an entry whose cell holds the 7 written
\* through a **T by an earlier call
C6_Witness ==
    \E t \in Threads : \E f \in FramesOf(t) :
       /\ f.fn = "wantForms"
       /\ Len(f.args) = 3
       /\ cells[f.args[1].cell] = 7
       /\ cells[f.args[2].cell] = 7
       /\ cells[f.args[3].cell] = 7

----------------------------------------------------------------------------
(* C7: the store of a Context holds, for every type, the entry of the last *)
(* Register of that type on that Context; every value handed over comes    *)
(* from the entry the store holds, through the path of that registration:  *)
(* its producer has run exactly once for a function, never for a value.    *)
\* C7: every registration is stored in its Context under its type unless a
\* later one of that type on that Context is, and every value handed over
\* comes from the stored entry, through its path
C7_LastRegistrationWins ==
    /\ \A e \in 1..Len(entries) :
         LET s == store[entries[e].ctx][entries[e].ty]
         IN /\ s >= e
            /\ entries[s].ctx = entries[e].ctx
            /\ entries[s].ty = entries[e].ty
    /\ \A t \in Threads : \A f \in FramesOf(t) : \A j \in 1..Len(f.args) :
         LET e == f.args[j].ent
         IN /\ store[entries[e].ctx][ParamKey(f.fn, j)] = e
            /\ runs[e] = IF ProducerBacked(e) THEN 1 ELSE 0
            /\ (~ProducerBacked(e) /\ f.args[j].d = 0) =>
                 cells[f.args[j].cell] \in {Item(entries[e].reg).v} \cup WrittenValues

\* a value of the later registration (ptrA, 2) is handed over although the
\* entry of the earlier one was realized and written to through a pointer
C7_Witness ==
    \E t \in Threads : \E f \in FramesOf(t) : \E j \in 1..Len(f.args) :
       \E e1 \in 1..Len(entries) :
          LET e2 == f.args[j].ent
          IN /\ e1 < e2
             /\ entries[e1].ctx = entries[e2].ctx
             /\ entries[e1].ty = entries[e2].ty
             /\ entries[e1].once = "done"
             /\ entries[e1].item # NoCell
             /\ cells[entries[e1].item] \in WrittenValues
             /\ entries[e2].reg = "ptrA"
             /\ f.args[j].d = 0
             /\ cells[f.args[j].cell] = 2

----------------------------------------------------------------------------
(* C8, as amended: when TryInject returns a non-nil error the function     *)
(* passed to it was not called, unless the error is the PanicInFunction    *)
(* of a panic of that function itself.                                     *)
C8_ErrorMeansNotCalled ==
    \A t \in Threads :
       (Done(t) /\ threads[t].result # ErrNil /\ threads[t].called) =>
          threads[t].result = ErrorPanicInFunction(threads[t].fn)

\* C8 as stated: a non-nil error, so the function was not called
C8_Original ==
    \A t \in Threads :
       (Done(t) /\ threads[t].result # ErrNil) => ~threads[t].called

\* the first parameter was resolved, the second was not: an error is
\* returned and the function was not called
C8_Witness ==
    \E t \in Threads :
       /\ Done(t)
       /\ threads[t].result.kind = "TypeNotRegistered"
       /\ threads[t].nres = 1
       /\ ~threads[t].called

----------------------------------------------------------------------------
(* C9: once a callable has panicked during a TryInject, be it the function *)
(* passed to it or a producer run to initialise an entry, the call only    *)
(* returns: every frame hands the PanicInFunction error of that panic to   *)
(* its caller, TryInject returns it, and the goroutine does not crash.     *)
C9_PanicIsReturned ==
    \A t \in Threads :
       threads[t].faulted # NoItem =>
          /\ threads[t].status \in {"run", "done"}
          /\ threads[t].status = "run" =>
               /\ Top(t).pc = "ret"
               /\ Top(t).err.kind = "PanicInFunction"
               /\ Top(t).err.cause = threads[t].faulted
          /\ Done(t) =>
               /\ threads[t].result.kind = "PanicInFunction"
               /\ threads[t].result.cause = threads[t].faulted

\* the producer of A panicked while B, requested by the function, was
\* being initialised, and TryInject returned the error of that panic
C9_Witness ==
    \E t \in Threads :
       /\ Done(t)
       /\ threads[t].fn = "wantBC"
       /\ threads[t].faulted = "makeApanics"
       /\ threads[t].result.kind = "PanicInFunction"
       /\ threads[t].result.cause = "makeApanics"
       /\ ~threads[t].called

----------------------------------------------------------------------------
(* Two goroutines in the cyclic pair *)

\* threads t and u each wait for a once.Do that the other is running
WaitOnEachOther(t, u) ==
    \E e \in InitBy(u), g \in InitBy(t) : WaitsOn(t, e) /\ WaitsOn(u, g)

\* C11: with the cyclic pair registered, of two concurrent TryInject, one
\* requesting A and one requesting B, neither waits on itself or on the
\* other forever, and each returns CircularInject
C11_EachDetectsCycle ==
    \A t, u \in Threads :
       (/\ CyclicPair
        /\ t # u
        /\ threads[t].fn = "wantA"
        /\ threads[u].fn = "wantB") =>
          /\ ~StuckOnItself(t) /\ ~StuckOnItself(u)
          /\ ~WaitOnEachOther(t, u)
          /\ \A x \in {t, u} :
               Done(x) => threads[x].result.kind = "CircularInject"

----------------------------------------------------------------------------
(* A producer computing from a registered value: makeBfromA returns 20     *)
(* plus the A it is given.                                                 *)

\* every B handed over from an entry of makeBfromA is the value that entry
\* holds, realized by the one run of the producer
C12_CachedValueDelivered ==
    \A t \in Threads : \A a \in ArgsOf(t) :
       entries[a.ent].maker = "makeBfromA" =>
          /\ runs[a.ent] = 1
          /\ a.cell = entries[a.ent].item

\* the step in which makeBfromA returns stores 20 plus the A it was given,
\* which is the value of the entry of A
C12_ComputedFromArguments ==
    \A t \in Threads :
       (/\ threads[t].status = "run"
        /\ Len(threads[t].stack) > 1
        /\ Top(t).fn = "makeBfromA"
        /\ Top(t).pc = "loop"
        /\ Len(Top(t).args) = 1
        /\ Len(threads'[t].stack) = Len(threads[t].stack) - 1) =>
          LET e == threads[t].stack[Len(threads[t].stack) - 1].ent
              a == Top(t).args[1]
          IN /\ entries'[e].once = "done"
             /\ runs'[e] = 1
             /\ a.cell = entries[a.ent].item
             /\ cells'[entries'[e].item] = 20 + cells[entries[a.ent].item]

\* C12: with a value of A and the producer makeBfromA registered, a
\* function requesting B is handed 20 plus the A registered, and every
\* later one the same value, the producer having run once
C12_ProducerValueOnce ==
    [](C12_CachedValueDelivered) /\ [][C12_ComputedFromArguments]_vars

\* a call is handed the B = 21 made from A = 1 by an earlier call, after a
\* call in between has written 7 to A
C12_Witness ==
    \E t \in Threads : \E f \in FramesOf(t) :
       /\ f.fn = "wantBC"
       /\ Len(f.args) >= 1
       /\ entries[f.args[1].ent].maker = "makeBfromA"
       /\ cells[f.args[1].cell] = 21
       /\ runs[f.args[1].ent] = 1
       /\ store[f.ctx]["A"] # NoEntry
       /\ entries[store[f.ctx]["A"]].reg = "valA"
       /\ cells[entries[store[f.ctx]["A"]].item] = 7

----------------------------------------------------------------------------
(* Writes through a delivered pointer and the Contexts that see them *)

\* every argument is the data of the entry of the nearest Context that has
\* one for the type: a view of its cell, read when the function is called
C13_NearestCellDelivered ==
    \A t \in Threads : \A f \in FramesOf(t) : \A j \in 1..Len(f.args) :
       LET a == f.args[j]
           n == NearestEntry(f.ctx, ParamKey(f.fn, j))
       IN /\ n # NoEntry
          /\ a.cell = entries[n].item

\* a function that writes through its pointer argument changes the cell of
\* the entry the pointer was delivered from, and no step changes any other
\* cell
C13_WriteFrame ==
    /\ \A t \in Threads :
         (/\ threads[t].status = "run"
          /\ threads'[t].status = "done"
          /\ threads'[t].called
          /\ threads'[t].result = ErrNil
          /\ Item(threads[t].fn).wp > 0) =>
            LET a == Top(t).args[Item(threads[t].fn).wp]
            IN /\ a.cell = entries[a.ent].item
               /\ cells'[a.cell] = Item(threads[t].fn).wv
    /\ \A c \in 1..Len(cells) :
         cells'[c] # cells[c] =>
            \E t \in Threads :
               /\ threads[t].status = "run"
               /\ Len(threads[t].stack) = 1
               /\ Item(threads[t].fn).wp > 0
               /\ Top(t).args[Item(threads[t].fn).wp].cell = c

\* C13: a write through a pointer delivered for T lands in the cell of the
\* entry of T, which every Context without an entry of its own for T
\* resolves T to; the cell of a shadowing entry is another one and keeps
\* its contents
C13_WriteSeenByDescendants ==
    [](C13_NearestCellDelivered) /\ [][C13_WriteFrame]_vars

\* a call on the child, which has no entry for A, is handed the 7 written
\* to the A of its parent
C13_Witness ==
    \E t \in Threads : \E f \in FramesOf(t) :
       /\ f.ctx = 2
       /\ store[2]["A"] = NoEntry
       /\ Len(f.args) >= 1
       /\ f.args[1].ty = "A" /\ f.args[1].d = 0
       /\ entries[f.args[1].ent].ctx = 1
       /\ cells[f.args[1].cell] = 7

----------------------------------------------------------------------------
(* Registration and request of the pointer forms of a type: one Context,   *)
(* values and producers of every indirection depth                         *)

FormItems == {"valA", "ptrA", "ptr2A", "makeB", "makePtrB", "makePtr2B"}

FormFns == {"wantForms", "wantFormsB", "wantDeepA"}

NextForms ==
    \/ \E item \in FormItems : Quiet /\ registerOne(1, item)
    \/ \E fn \in FormFns : TryInject(1, 1, fn)
    \/ getInjectable(1)
    \/ OnceDo(1)
    \/ Call(1)
    \/ ReturnErr(1)
    \/ Forget(1)

SpecForms == Init /\ [][NextForms]_vars

\* C14: whatever the indirection depth of what was registered, value or
\* result of a producer, its entry is kept in the slot of the base type and
\* in no other; a parameter of any indirection depth is served from the
\* slot of its base type, and a request fails with TypeNotRegistered only
\* when that slot is empty
C14_OneSlotPerBaseType ==
    /\ \A e \in 1..Len(entries) :
         /\ entries[e].ty = Item(entries[e].reg).ty
         /\ store[entries[e].ctx][Item(entries[e].reg).ty] >= e
    /\ \A c \in Ctxs : \A k \in Types :
         store[c][k] # NoEntry => Item(entries[store[c][k]].reg).ty = k
    /\ \A t \in Threads : \A f \in FramesOf(t) : \A j \in 1..Len(f.args) :
         /\ f.args[j].ent = store[f.ctx][Item(f.fn).params[j].ty]
         /\ Item(entries[f.args[j].ent].reg).ty = Item(f.fn).params[j].ty
    /\ \A t \in Threads :
         (Done(t) /\ threads[t].result.kind = "TypeNotRegistered") =>
            store[threads[t].ctx][threads[t].result.ty] = NoEntry

\* T, *T and **T are all served from an entry registered as **T, and the
\* same from the result of a producer returning *B
C14_Witness ==
    \E t \in Threads : \E f \in FramesOf(t) :
       /\ Len(f.args) = 3
       /\ \A j \in 1..3 : f.args[j].d = j - 1
       /\ \/ /\ f.fn = "wantForms"
             /\ \A j \in 1..3 : entries[f.args[j].ent].reg = "ptr2A"
          \/ /\ f.fn = "wantFormsB"
             /\ \A j \in 1..3 : entries[f.args[j].ent].reg = "makePtrB"

----------------------------------------------------------------------------
(* The two entry points: TryInject and Inject, called one at a time with   *)
(* functions, with functions of no parameter and with a value              *)

CallItems == {"valA", "makeApanics", "makeB"}

CallFns == {"wantA", "wantBC", "noParams", "noParamsPanics", "valA", "nil"}

NextCalls ==
    \/ \E c \in 1..MaxCtx, item \in CallItems : Quiet /\ registerOne(c, item)
    \/ \E c \in 1..MaxCtx : Quiet /\ Child(c)
    \/ \E c \in 1..MaxCtx, fn \in CallFns : TryInject(1, c, fn)
    \/ \E c \in 1..MaxCtx, fn \in CallFns : Inject(1, c, fn)
    \/ getInjectable(1)
    \/ OnceDo(1)
    \/ Call(1)
    \/ ReturnErr(1)
    \/ Forget(1)

SpecCalls == Init /\ [][NextCalls]_vars

\* Inject has ended in a panic, its own or one that passed through it
InjectPanicked(t) ==
    threads[t].strict /\ threads[t].status \in {"panicked", "crashed"}

\* the TryInject that Inject calls has returned an error
TryInjectReturnedError(t) ==
    threads[t].status \in {"done", "panicked"} /\ threads[t].result # ErrNil

\* C15: Inject panics exactly when the TryInject it makes returns an error,
\* and returns normally exactly when that TryInject returns nil
C15_InjectPanicsIffError ==
    \A t \in Threads : threads[t].strict =>
       /\ InjectPanicked(t) <=> TryInjectReturnedError(t)
       /\ threads[t].status = "done" => threads[t].result = ErrNil

\* the call of thread t has ended and its outcome is with the caller
Ended(t) == threads[t].status \in {"done", "panicked"}

IsFunction(n) == n # NoItem /\ Item(n).kind = "func"

\* a call whose argument is not a function has ended with
\* FunctionNotProvided, with nothing resolved and nothing called
C16_Refused ==
    \A t \in Threads :
       (threads[t].fn # NoItem /\ ~IsFunction(threads[t].fn)) =>
          /\ Ended(t)
          /\ threads[t].result.kind = "FunctionNotProvided"
          /\ threads[t].stack = <<>>
          /\ threads[t].nres = 0
          /\ ~threads[t].called

\* the step of such a call changes no Context, entry, value or run count
C16_NothingTouched ==
    \A t \in Threads :
       (/\ threads[t].status = "idle"
        /\ threads'[t].fn # NoItem
        /\ ~IsFunction(threads'[t].fn)) =>
          UNCHANGED <<parent, store, entries, cells, runs>>

\* C16: TryInject of what is not a function returns FunctionNotProvided,
\* resolves no type, runs no producer and leaves every entry as it was
C16_NonFunctionRefused == [](C16_Refused) /\ [][C16_NothingTouched]_vars

\* C17 as stated: a call of a function of no parameter returns nil
C17_Original ==
    \A t \in Threads :
       (Ended(t) /\ IsFunction(threads[t].fn) /\ NumIn(threads[t].fn) = 0) =>
          threads[t].result = ErrNil

\* C17: a function of no parameter is always called, with nothing
\* resolved, whatever the Context holds; TryInject returns nil, unless the
\* function itself panics, and then it returns PanicInFunction
C17_NoParameterAlwaysCalled ==
    \A t \in Threads :
       (IsFunction(threads[t].fn) /\ NumIn(threads[t].fn) = 0) =>
          /\ threads[t].status # "crashed"
          /\ \A f \in FramesOf(t) : f.args = <<>> /\ f.ent = NoEntry
          /\ Ended(t) =>
               /\ threads[t].called
               /\ threads[t].nres = 0
               /\ IF Item(threads[t].fn).panics
                  THEN /\ threads[t].result.kind = "PanicInFunction"
                       /\ threads[t].result.cause = threads[t].fn
                  ELSE threads[t].result = ErrNil

\* a function of no parameter was called on a Context with nothing
\* registered, and TryInject returned nil
C17_Witness ==
    \E t \in Threads :
       /\ threads[t].fn = "noParams"
       /\ threads[t].status = "done"
       /\ threads[t].called
       /\ threads[t].result = ErrNil
       /\ entries = <<>>

----------------------------------------------------------------------------
(* Values whose type has an OnInjection method *)

HookItems == {"hookedC", "makeB", "valA"}

HookFns == {"wantC", "wantBC"}

NextHook ==
    \/ \E c \in 1..MaxCtx, item \in HookItems : Quiet /\ registerOne(c, item)
    \/ \E c \in 1..MaxCtx : Quiet /\ Child(c)
    \/ \E c \in 1..MaxCtx, fn \in HookFns : TryInject(1, c, fn)
    \/ getInjectable(1)
    \/ OnceDo(1)
    \/ Call(1)
    \/ ReturnErr(1)
    \/ Forget(1)

SpecHook == Init /\ [][NextHook]_vars

\* C18: a value whose type has an OnInjection method is delivered only
\* after that method has run with its parameter injected from the Context
\* of the value: when that Context can resolve B, B has been realized and
\* the C handed over is the one the method has set from it
C18_HookRunsBeforeDelivery ==
    \A t \in Threads : \A f \in FramesOf(t) : \A j \in 1..Len(f.args) :
       LET a == f.args[j]
           h == HookOf(entries[a.ent].reg)
           b == NearestEntry(entries[a.ent].ctx, ParamKey(h, 1))
       IN (h # NoItem /\ b # NoEntry) =>
             /\ entries[b].item # NoCell
             /\ cells[a.cell] = cells[entries[b].item]

----------------------------------------------------------------------------
(* Failed initialisations and the chain of types being initialised *)

\* the initialisation of entry e has run and left no item
FailedInit(e) ==
    /\ ProducerBacked(e)
    /\ entries[e].once = "done"
    /\ entries[e].item = NoCell

\* C19: once the initialisation of an entry has failed, no call crashes,
\* no argument is handed over from that entry, and every call that needed
\* the entry and has ended has returned an error
C19_FailedInitAlwaysError ==
    /\ \A t \in Threads : threads[t].status # "crashed"
    /\ \A t \in Threads : \A a \in ArgsOf(t) : ~FailedInit(a.ent)
    /\ \A t \in Threads :
         (/\ Ended(t)
          /\ IsFunction(threads[t].fn)
          /\ \E j \in 1..NumIn(threads[t].fn) :
               LET n == NearestEntry(threads[t].ctx, ParamKey(threads[t].fn, j))
               IN n # NoEntry /\ FailedInit(n)) =>
            threads[t].result # ErrNil

\* the types whose initialisation is in progress below frame k of thread t
InProgress(t, k) ==
    [i \in 1..(k - 1) |-> entries[threads[t].stack[i].ent].ty]

\* C20: the chain a frame resolves with lists the types whose
\* initialisation is in progress in its call tree: empty for the function
\* passed to TryInject, the caller's chain extended with K for the producer
\* of K
C20_ChainExtended ==
    \A t \in Threads : \A k \in 1..Len(threads[t].stack) :
       /\ threads[t].stack[k].from = InProgress(t, k)
       /\ k > 1 =>
            threads[t].stack[k].from =
               appendType(threads[t].stack[k - 1].from,
                          entries[threads[t].stack[k - 1].ent].ty)

----------------------------------------------------------------------------
(* A producer and its dependency in a parent and a child Context *)

ScopeItems == {"valA", "ptrA", "makeBfromA"}

ScopeFns == {"wantAB"}

NextScopes ==
    \/ \E c \in 1..MaxCtx, item \in ScopeItems :
          Quiet /\ registerUpTo(c, item, MaxDeps)
    \/ \E c \in 1..MaxCtx : Quiet /\ Child(c)
    \/ \E c \in 1..MaxCtx, fn \in ScopeFns : TryInject(1, c, fn)
    \/ getInjectable(1)
    \/ OnceDo(1)
    \/ Call(1)
    \/ ReturnErr(1)
    \/ Forget(1)

SpecScopes == Init /\ [][NextScopes]_vars

\* type ty is a parameter of the producer of entry e, whose initialisation
\* failed, and the Context of that producer cannot resolve it
MissingFor(e, ty) ==
    /\ FailedInit(e)
    /\ \E j \in 1..NumIn(entries[e].maker) : ParamKey(entries[e].maker, j) = ty
    /\ NearestEntry(entries[e].ctx, ty) = NoEntry

\* C21: a TypeNotRegistered error returned by TryInject has the 1-based
\* position, in the function handed to TryInject, of the first parameter
\* that was not resolved, and the type that is missing: the type of that
\* parameter itself, or a type that the Context of a producer whose
\* initialisation failed cannot resolve
C21_TopLevelPosition ==
    \A t \in Threads :
       (Ended(t) /\ threads[t].result.kind = "TypeNotRegistered") =>
          LET r == threads[t].result
          IN /\ r.pos = threads[t].nres + 1
             /\ r.pos \in 1..NumIn(threads[t].fn)
             /\ \/ /\ r.ty = ParamKey(threads[t].fn, r.pos)
                   /\ NearestEntry(threads[t].ctx, r.ty) = NoEntry
                \/ \E e \in 1..Len(entries) : MissingFor(e, r.ty)

\* a call on the child, which has an A: the second parameter, B, comes
\* from the producer of the parent, which has no A; position 2, type A
C21_Witness ==
    \E t \in Threads :
       /\ Ended(t)
       /\ threads[t].fn = "wantAB"
       /\ threads[t].ctx = 2
       /\ threads[t].result.kind = "TypeNotRegistered"
       /\ threads[t].result.pos = 2
       /\ threads[t].result.ty = "A"
       /\ NearestEntry(2, "A") # NoEntry
       /\ \E e \in 1..Len(entries) : MissingFor(e, "A")

\* the frame of a producer is on the Context the producer was registered
\* on, and every frame is served from the nearest entry of its own
\* Context: the data of that entry, realized in the entry itself
C25_ResolvedWhereRegistered ==
    \A t \in Threads :
       /\ \A k \in 2..Len(threads[t].stack) :
            LET f == threads[t].stack[k]
                e == threads[t].stack[k - 1].ent
            IN /\ f.fn = entries[e].maker
               /\ f.ctx = entries[e].ctx
       /\ \A f \in FramesOf(t) : \A j \in 1..Len(f.args) :
            LET a == f.args[j]
                n == NearestEntry(f.ctx, ParamKey(f.fn, j))
            IN /\ a.ent = n
               /\ entries[n].item # NoCell
               /\ a.cell = entries[n].item
               /\ IsAncestorOrSelf(entries[n].ctx, f.ctx)

\* the step in which a producer returns stores its result in the entry
\* it was registered as, computed from the arguments of its own frame
C25_StoredInOwnEntry ==
    \A t \in Threads :
       (/\ threads[t].status = "run"
        /\ Len(threads[t].stack) > 1
        /\ Len(threads'[t].stack) = Len(threads[t].stack) - 1
        /\ Top(t).pc = "loop") =>
          LET e == threads[t].stack[Len(threads[t].stack) - 1].ent
          IN /\ entries[e].maker = Top(t).fn
             /\ entries'[e].item # NoCell
             /\ cells'[entries'[e].item] = Item(Top(t).fn).v + SumArgs(Top(t).args)
             /\ \A x \in 1..Len(entries) : x # e => entries'[x] = entries[x]

\* C25: a producer resolves its parameters on the Context it was
\* registered on, whichever Context the request came from; its result is
\* stored in its own entry and is what that Context and every descendant
\* without an entry of its own for the type are handed
C25_ProducerUsesOwnContext ==
    [](C25_ResolvedWhereRegistered) /\ [][C25_StoredInOwnEntry]_vars

\* a call on the child, which has its own A (2), is handed the B that the
\* producer of the parent made from the A of the parent (1)
C25_Witness ==
    \E t \in Threads : \E f \in FramesOf(t) :
       /\ f.ctx = 2 /\ f.fn = "wantAB"
       /\ Len(f.args) = 2
       /\ entries[f.args[1].ent].ctx = 2
       /\ entries[f.args[1].ent].reg = "ptrA"
       /\ cells[f.args[1].cell] = 2
       /\ entries[f.args[2].ent].ctx = 1
       /\ entries[f.args[2].ent].maker = "makeBfromA"
       /\ cells[f.args[2].cell] = 21
       /\ store[1]["A"] # NoEntry
       /\ entries[store[1]["A"]].reg = "valA"

----------------------------------------------------------------------------
(* Dependency graphs without a cycle in one Context: B and C are made from *)
(* A, which is a value                                                     *)

DepItems == {"valA", "ptrA", "makeBfromA", "makeBwritesA", "makeCfromA"}

DepFns == {"wantBC", "wantAB", "wantForms", "wantFormsB"}

NextDeps ==
    \/ \E item \in DepItems : Quiet /\ registerUpTo(1, item, MaxDeps)
    \/ \E fn \in DepFns : TryInject(1, 1, fn)
    \/ getInjectable(1)
    \/ OnceDo(1)
    \/ Call(1)
    \/ ReturnErr(1)
    \/ Forget(1)

SpecDeps == Init /\ [][NextDeps]_vars

\* C22: where no producer depends on its own type, no resolution fails
\* with CircularInject and no call returns it, whether two producers share
\* a dependency or one type is requested several times by one function
C22_NoFalseCycle ==
    \A t \in Threads :
       /\ threads[t].result.kind # "CircularInject"
       /\ \A f \in FramesOf(t) : f.err.kind # "CircularInject"

\* the diamond: B and C, each made once from the one A, are both handed
\* to one function
C22_Witness ==
    \E t \in Threads : \E f \in FramesOf(t) :
       /\ f.fn = "wantBC"
       /\ Len(f.args) = 2
       /\ entries[f.args[1].ent].maker = "makeBfromA"
       /\ entries[f.args[2].ent].maker = "makeCfromA"
       /\ runs[f.args[1].ent] = 1 /\ runs[f.args[2].ent] = 1
       /\ f.err = ErrNil

\* entry e is producer-backed and holds the result of its producer
Realized(e) == ProducerBacked(e) /\ entries[e].item # NoCell

\* no step changes a realized entry, the value it holds or the number of
\* runs of its producer, and registering another type leaves the slot of
\* its type as it is
C26_RealizedIsFrozen ==
    \A e \in 1..Len(entries) :
       Realized(e) =>
          /\ entries'[e] = entries[e]
          /\ cells'[entries[e].item] = cells[entries[e].item]
          /\ runs'[e] = runs[e]
          /\ (Len(entries') > Len(entries)
               /\ entries'[Len(entries')].ty # entries[e].ty) =>
                 store'[entries[e].ctx][entries[e].ty] = store[entries[e].ctx][entries[e].ty]

\* what is handed over from a realized entry is the value it holds
C26_RealizedDelivered ==
    \A t \in Threads : \A a \in ArgsOf(t) :
       ProducerBacked(a.ent) =>
          /\ Realized(a.ent)
          /\ runs[a.ent] = 1
          /\ a.cell = entries[a.ent].item

\* C26: the value of a realized producer-backed entry is cached: neither
\* registering a dependency anew nor writing to the dependency through a
\* pointer changes the value handed over for the dependent type or runs
\* the producer again
C26_CachedDespiteDependencies ==
    [](C26_RealizedDelivered) /\ [][C26_RealizedIsFrozen]_vars

\* B was made from the A registered first (1); A was registered anew (2)
\* and one function is handed the new A and the B made from the old one
C26_Witness ==
    \E t \in Threads : \E f \in FramesOf(t) :
       /\ f.fn = "wantAB"
       /\ Len(f.args) = 2
       /\ entries[f.args[1].ent].reg = "ptrA"
       /\ cells[f.args[1].cell] = 2
       /\ entries[f.args[2].ent].maker = "makeBfromA"
       /\ cells[f.args[2].cell] = 21
       /\ runs[f.args[2].ent] = 1

\* the arguments of a frame are those of its first parameters, in order,
\* and the parameter being resolved is the next one; a frame that returns
\* an error of resolution has stopped at that parameter
C27_InOrder ==
    \A t \in Threads :
       /\ \A f \in FramesOf(t) :
            /\ \A j \in 1..Len(f.args) :
                 /\ f.args[j].ty = Item(f.fn).params[j].ty
                 /\ f.args[j].d = Item(f.fn).params[j].d
            /\ f.pc \in {"loop", "once"} => Len(f.args) = f.i - 1
            /\ (f.pc = "ret" /\ f.err.kind # "PanicInFunction") =>
                  Len(f.args) = f.i - 1 /\ f.i <= NumIn(f.fn)
       /\ Ended(t) /\ IsFunction(threads[t].fn) =>
            /\ threads[t].called => threads[t].nres = NumIn(threads[t].fn)
            /\ (threads[t].result # ErrNil
                 /\ threads[t].result.kind # "PanicInFunction") =>
                   ~threads[t].called /\ threads[t].nres < NumIn(threads[t].fn)

\* a producer is started only for the parameter that is next in its
\* caller's list; a frame that has failed resolves nothing more; and an
\* entry that is realized stays realized through every later step
C27_StepByStep ==
    /\ \A e \in 1..Len(entries) :
         (entries[e].once = "fresh" /\ entries'[e].once # "fresh") =>
            \E t \in Threads :
               /\ threads[t].status = "run"
               /\ Top(t).pc = "once"
               /\ Top(t).ent = e
               /\ Len(Top(t).args) = Top(t).i - 1
               /\ e = NearestEntry(Top(t).ctx, ParamKey(Top(t).fn, Top(t).i))
    /\ \A t \in Threads :
         (threads[t].status = "run" /\ Top(t).pc = "ret"
          /\ threads'[t] # threads[t]) =>
            /\ Len(threads'[t].stack) = Len(threads[t].stack) - 1
            /\ runs' = runs
    /\ \A e \in 1..Len(entries) :
         Realized(e) => entries'[e] = entries[e]

\* C27: parameters are resolved left to right and resolution stops at
\* the first one that fails: producers of later parameters are not run,
\* entries realized for earlier ones stay realized, and the function is
\* called only when every parameter has been resolved
C27_LeftToRight == [](C27_InOrder) /\ [][C27_StepByStep]_vars

\* wantBC failed at its second parameter, C, whose producer never ran;
\* the B realized for its first parameter is still there
C27_Witness ==
    \E t \in Threads :
       /\ Ended(t) /\ threads[t].fn = "wantBC"
       /\ threads[t].result.kind = "TypeNotRegistered"
       /\ threads[t].result.pos = 2
       /\ ~threads[t].called
       /\ threads[t].nres = 1
       /\ store[1]["B"] # NoEntry
       /\ Realized(store[1]["B"])
       /\ runs[store[1]["B"]] = 1
       /\ cells[entries[store[1]["B"]].item] = 21

\* C28: a stored value is behind exactly one pointer; a parameter of 0 to
\* 51 levels of indirection is served from it, one of 52 or more ends the
\* call with the denormalization error, which is none of the four error
\* kinds, and the function is not called
C28_BoundedReshaping ==
    /\ \A e \in 1..Len(entries) : entries[e].item # NoCell => entries[e].d = 1
    /\ \A t \in Threads : \A f \in FramesOf(t) :
         /\ \A j \in 1..Len(f.args) : f.args[j].d \in 0..51
         /\ \A j \in 1..NumIn(f.fn) :
              (Item(f.fn).params[j].d <= 51 /\ f.i = j) =>
                 f.err.kind # "denormalize"
         /\ \A j \in 1..NumIn(f.fn) :
              (Item(f.fn).params[j].d >= 52 /\ f.i = j /\ f.pc = "ret") =>
                 f.err.kind = "denormalize"
    /\ \A t \in Threads :
         (Ended(t) /\ IsFunction(threads[t].fn)
          /\ \E j \in 1..NumIn(threads[t].fn) :
                /\ Item(threads[t].fn).params[j].d >= 52
                /\ threads[t].nres = j - 1) =>
            /\ threads[t].result.kind = "denormalize"
            /\ threads[t].result.kind \notin
                  {"FunctionNotProvided", "TypeNotRegistered",
                   "CircularInject", "PanicInFunction"}
            /\ ~threads[t].called

\* the parameter of 51 levels was served, the one of 52 levels ended the
\* call with the denormalization error
C28_Witness ==
    \E t \in Threads :
       /\ Ended(t) /\ threads[t].fn = "wantDeepA"
       /\ Item("wantDeepA").params[1].d = 51
       /\ Item("wantDeepA").params[2].d = 52
       /\ threads[t].nres = 1
       /\ threads[t].result.kind = "denormalize"
       /\ ~threads[t].called

----------------------------------------------------------------------------
(* Register with several items, some of them nil or functions that do not *)
(* return exactly one value: goroutine 1 calls Register on the root Context       *)
(* while the other goroutines call TryInject on it                         *)

RegItems == {"valA", "makeB", "makeTwo", "wantA", "nil"}

\* the argument lists of Register: one or two items
RegLists == {<<a>> : a \in RegItems} \cup {<<a, b>> : a, b \in RegItems}

RegFns == {"wantAB", "setA"}

NextRegister ==
    \/ \E items \in RegLists : Register(1, 1, items)
    \/ registerItem(1)
    \/ \E t \in Threads \ {1}, fn \in RegFns : TryInject(t, 1, fn)
    \/ \E t \in Threads : getInjectable(t)
    \/ \E t \in Threads : OnceDo(t)
    \/ \E t \in Threads : Call(t)
    \/ \E t \in Threads : ReturnErr(t)
    \/ \E t \in Threads : Forget(t)

SpecRegister == InitConc /\ [][NextRegister]_vars

\* a function that does not return exactly one value
BadProducer(n) == Item(n).kind = "func" /\ Item(n).numOut # 1

\* the untyped nil, which registerOne panics on at line 75
IsNil(n) == Item(n).kind = "nil"

\* goroutine t is panicking in Register, on a function that does not
\* return exactly one value
RegisterPanicked(t) ==
    /\ threads[t].status = "panicked"
    /\ threads[t].items # <<>>
    /\ BadProducer(threads[t].fn)

\* no entry is ever made of a function that does not return one value
\* (nor of nil), and a Register that has panicked did so on the item that
\* follows the nres items it has registered, such a function or nil; each
\* of the nres items has an entry on the Context of the call and a slot
\* that holds an entry
C29_NoSuchEntry ==
    /\ \A e \in 1..Len(entries) :
         ~BadProducer(entries[e].reg) /\ ~IsNil(entries[e].reg)
    /\ \A t \in Threads :
         (threads[t].status = "panicked" /\ threads[t].items # <<>>) =>
            /\ threads[t].nres < Len(threads[t].items)
            /\ threads[t].fn = threads[t].items[threads[t].nres + 1]
            /\ BadProducer(threads[t].fn) \/ IsNil(threads[t].fn)
            /\ \A k \in 1..threads[t].nres :
                 /\ ~BadProducer(threads[t].items[k])
                 /\ ~IsNil(threads[t].items[k])
                 /\ \E e \in 1..Len(entries) :
                      /\ entries[e].reg = threads[t].items[k]
                      /\ entries[e].ctx = threads[t].ctx
                      /\ store[entries[e].ctx][entries[e].ty] >= e

\* every iteration of the loop of Register either panics, on an item that
\* is a function not returning one value (or nil), and changes no entry and
\* no slot, or adds the entry of its item on the Context of the call and puts
\* it in the slot of its type, all other entries and slots staying as they
\* are
C29_PrefixRegistered ==
    \A t \in Threads :
       (threads[t].status = "reg" /\ threads'[t] # threads[t]) =>
          LET n == threads[t].items[threads[t].nres + 1]
              c == threads[t].ctx
          IN IF BadProducer(n) \/ IsNil(n)
             THEN /\ threads'[t].status = "panicked"
                  /\ threads'[t].fn = n
                  /\ threads'[t].nres = threads[t].nres
                  /\ entries' = entries
                  /\ store' = store
                  /\ cells' = cells
             ELSE /\ threads'[t].status # "panicked"
                  /\ Len(entries') = Len(entries) + 1
                  /\ SubSeq(entries', 1, Len(entries)) = entries
                  /\ entries'[Len(entries')].reg = n
                  /\ entries'[Len(entries')].ctx = c
                  /\ store'[c][entries'[Len(entries')].ty] = Len(entries')
                  /\ \A x \in Ctxs : \A k \in Types :
                       (x # c \/ k # entries'[Len(entries')].ty) =>
                          store'[x][k] = store[x][k]

\* C29: Register of a function that does not return exactly one value
\* panics and adds or replaces no entry for it; the items listed before it
\* in the same call are registered when the panic occurs
C29_BadProducerPanics == [](C29_NoSuchEntry) /\ [][C29_PrefixRegistered]_vars

\* Register(A(1), func() (B, C) {...}) has panicked on its second item
\* and the A is registered
C29_Witness ==
    \E t \in Threads :
       /\ RegisterPanicked(t)
       /\ threads[t].items = <<"valA", "makeTwo">>
       /\ threads[t].fn = "makeTwo"
       /\ threads[t].nres = 1
       /\ Len(entries) = 1
       /\ entries[1].reg = "valA"
       /\ store[threads[t].ctx]["A"] = 1
       /\ store[threads[t].ctx]["B"] = NoEntry

----------------------------------------------------------------------------
(* Concurrent use without a cycle: B is made from A, A is a value; every   *)
(* goroutine that can take a step eventually takes one                     *)

LiveItems == {"valA", "makeBfromA"}

LiveFns == {"wantA", "wantB"}

\* the steps of the call that goroutine t is in
Step(t) == getInjectable(t) \/ OnceDo(t) \/ Call(t) \/ ReturnErr(t)

NextLive ==
    \/ \E item \in LiveItems : Quiet /\ registerOne(1, item)
    \/ \E t \in Threads, fn \in LiveFns : TryInject(t, 1, fn)
    \/ \E t \in Threads : getInjectable(t)
    \/ \E t \in Threads : OnceDo(t)
    \/ \E t \in Threads : Call(t)
    \/ \E t \in Threads : ReturnErr(t)
    \/ \E t \in Threads : Forget(t)

SpecLive ==
    /\ InitConc
    /\ [][NextLive]_vars
    /\ \A t \in 1..NThreads : WF_vars(Step(t))

\* C23: without a cycle among the producers, and with producers and
\* functions that return, every call comes to its end, whatever the
\* interleaving: no goroutine stays in a call for ever, waiting or not
C23_EveryCallEnds ==
    \A t \in 1..NThreads :
       (threads[t].status = "run") ~> (threads[t].status # "run")

\* one goroutine waits in once.Do for the producer of B, which another
\* goroutine is running
C23_Witness ==
    \E t, u \in Threads :
       /\ t # u
       /\ \E e \in InitBy(u) :
            /\ WaitsOn(t, e)
            /\ entries[e].maker = "makeBfromA"
       /\ Top(u).fn = "makeBfromA"

----------------------------------------------------------------------------
(* Concurrent use with a producer of A that never returns and a producer   *)
(* of B that needs nothing                                                 *)

HangItems == {"makeAhangs", "makeB"}

HangFns == {"wantA", "wantB"}

NextHang ==
    \/ \E item \in HangItems : Quiet /\ registerOne(1, item)
    \/ \E t \in Threads, fn \in HangFns : TryInject(t, 1, fn)
    \/ \E t \in Threads : getInjectable(t)
    \/ \E t \in Threads : OnceDo(t)
    \/ \E t \in Threads : Call(t)
    \/ \E t \in Threads : ReturnErr(t)
    \/ \E t \in Threads : Forget(t)

SpecHang ==
    /\ InitConc
    /\ [][NextHang]_vars
    /\ \A t \in 1..NThreads : WF_vars(Step(t))

\* the entry that a call of fn on Context c finds for its j-th parameter
\* is that of a producer that never returns
NeedsHanging(c, fn, j) ==
    LET n == NearestEntry(c, ParamKey(fn, j))
    IN n # NoEntry /\ ProducerBacked(n) /\ Hangs(entries[n].maker)

\* the entry of a producer that never returns is never realized, nothing
\* is handed over from it, and no call that needs it ends
C24_HangingBlocksItsType ==
    /\ \A e \in 1..Len(entries) :
         (ProducerBacked(e) /\ Hangs(entries[e].maker)) =>
            /\ entries[e].once # "done"
            /\ entries[e].item = NoCell
            /\ \A t \in Threads : \A a \in ArgsOf(t) : a.ent # e
    /\ \A t \in Threads :
         (threads[t].fn # NoItem
          /\ \E j \in 1..NumIn(threads[t].fn) :
                NeedsHanging(threads[t].ctx, threads[t].fn, j)) =>
            threads[t].status = "run"

\* a call that needs only B comes to its end
C24_UnrelatedCompletes ==
    \A t \in 1..NThreads :
       (threads[t].status = "run" /\ threads[t].fn = "wantB")
          ~> (threads[t].status = "done")

\* C24: a producer that never returns blocks every resolver of its own
\* type, for ever, and no resolver of a type that does not depend on it:
\* a call requesting only such types completes while it is running
C24_OnlyItsOwnType ==
    [](C24_HangingBlocksItsType) /\ C24_UnrelatedCompletes

\* the producer of A is running, never to return, and a call that asked
\* for B, made by its producer meanwhile, has returned nil
C24_Witness ==
    \E t, u \in Threads :
       /\ t # u
       /\ threads[u].status = "run"
       /\ Top(u).fn = "makeAhangs"
       /\ threads[t].status = "done"
       /\ threads[t].fn = "wantB"
       /\ threads[t].called
       /\ threads[t].result = ErrNil
       /\ store[1]["B"] # NoEntry
       /\ runs[store[1]["B"]] = 1

====
